---- MODULE Spec2Model ----
(***************************************************************************)
(* A model of the container orchestration services:                        *)
(*   backend/src/services/podman.ts  port allocator and container lifecycle *)
(*   backend/src/services/file.ts    remote file tree, batched reads, write *)
(*                                                                         *)
(* Strings of the program are sequences of one-character strings, so that  *)
(* parseInt, template formatting and String.includes are computed and not  *)
(* assumed.  Every action is the completion of one awaited command: what    *)
(* the command does to (or reads from) the runtime, followed by the         *)
(* synchronous code up to the next await.                                   *)
(***************************************************************************)
EXTENDS Integers, Sequences, FiniteSets, TLC

VARIABLES
    usedPorts,    \* podman.ts: const usedPorts = new Set<number>()
    containers,   \* the runtime's containers, by container id
    extListen,    \* host ports some process outside the runtime listens on
    calls,        \* the in-flight calls of the exported podman.ts functions
    pristine,     \* history: nothing pre-existed and releasePort never ran
    started,      \* history: the number of calls made so far
    writes,       \* the in-flight writeFile calls (file.ts)
    tempFiles,    \* local /tmp/file-<uuid> files that exist
    remoteDirs,   \* the directories that exist in the container
    tree,         \* one getFileContentTree / getFileTree call (file.ts)
    build         \* one buildImage call and its temporary directory (podman.ts)

vars == <<usedPorts, containers, extListen, calls, pristine, started,
          writes, tempFiles, remoteDirs, tree, build>>

podVars == <<usedPorts, containers, extListen, calls, pristine, started>>
fileVars == <<writes, tempFiles, remoteDirs, tree>>


----------------------------------------------------------------------------
(* Bounds of the model *)

\* the source scans 1000 candidate ports; the model scans ScanWindow of them
ScanWindow == 2
MaxContainers == 2
MaxCalls == 2
\* the calls the callers make in one run
MaxOps == 3
\* concurrent writeFile calls
MaxWriters == 2

BASE_PORT == 8000

CIDs == 1..MaxContainers
Procs == 1..MaxCalls
Writers == 1..MaxWriters

----------------------------------------------------------------------------
(* Strings *)

Undefined == <<"undefined">>
NoValue == <<"<", "n", "o", " ", "v", "a", "l", "u", "e", ">">>
NaN == -1

Truthy(s) == s # Undefined /\ s # <<>>

DigitChars == <<"0", "1", "2", "3", "4", "5", "6", "7", "8", "9">>

IsDigit(ch) == \E i \in 1..10 : DigitChars[i] = ch

DigitVal(ch) == (CHOOSE i \in 1..10 : DigitChars[i] = ch) - 1

IsSpace(ch) == ch \in {" ", "\t", "\n"}

RECURSIVE SkipSpace(_)
SkipSpace(s) ==
    IF s # <<>> /\ IsSpace(Head(s)) THEN SkipSpace(Tail(s)) ELSE s

RECURSIVE ParseDigits(_, _, _)
ParseDigits(s, acc, seen) ==
    IF s # <<>> /\ IsDigit(Head(s))
    THEN ParseDigits(Tail(s), acc * 10 + DigitVal(Head(s)), TRUE)
    ELSE IF seen THEN acc ELSE NaN

\* parseInt(string): leading white space is skipped, the longest prefix of
\* digits is the value, NaN when there is none
parseInt(s) == ParseDigits(SkipSpace(s), 0, FALSE)

RECURSIVE ToStr(_)
\* `${n}` for a non-negative integer
ToStr(n) ==
    IF n < 10 THEN <<DigitChars[n + 1]>>
    ELSE ToStr(n \div 10) \o <<DigitChars[(n % 10) + 1]>>

\* String.prototype.includes
Includes(s, sub) ==
    \E i \in 1..(Len(s) - Len(sub) + 1) : SubSeq(s, i, i + Len(sub) - 1) = sub

ImagePrefix == <<"d", "e", "c", "-", "n", "e", "x", "t", "j", "s", "-">>
OwnImage == ImagePrefix \o <<"1">>
OtherImage == <<"n", "o", "d", "e">>

----------------------------------------------------------------------------
(* The container runtime *)

Absent ==
    [exists |-> FALSE, running |-> FALSE, project |-> FALSE,
     hostPort |-> Undefined, label |-> Undefined, image |-> <<>>]

Container(running, project, hostPort, label, image) ==
    [exists |-> TRUE, running |-> running, project |-> project,
     hostPort |-> hostPort, label |-> label, image |-> image]

\* the containers a previous run of the process, or someone else, may have left
PreExisting ==
    { Absent,
      Container(FALSE, TRUE, ToStr(BASE_PORT), ToStr(BASE_PORT), OwnImage),
      Container(TRUE, TRUE, ToStr(BASE_PORT + 1), ToStr(BASE_PORT), OtherImage),
      Container(TRUE, TRUE, <<>>, ToStr(BASE_PORT), OwnImage),
      Container(FALSE, FALSE, Undefined, Undefined, OtherImage),
      Container(TRUE, FALSE, Undefined, Undefined, OtherImage) }

\* host ports with a listener: published ports of running containers, and
\* the listeners outside the runtime
Listening(cs) ==
    { parseInt(cs[c].hostPort) : c \in { d \in CIDs : cs[d].running /\ Truthy(cs[d].hostPort) } }
        \cup extListen

\* the lines podman ps -a --filter label=project=december prints for
\* {{.Labels.assignedPort}}, as a set
PsLabelLines(cs) ==
    { IF cs[c].label = Undefined THEN NoValue ELSE cs[c].label :
        c \in { d \in CIDs : cs[d].exists /\ cs[d].project } }

\* getAllAssignedPorts, the query having succeeded
ParseAssignedPorts(lines) ==
    { parseInt(l) : l \in { k \in lines : k # <<>> /\ k # NoValue /\ parseInt(k) # NaN } }

getAllAssignedPorts(cs, ok) ==
    IF ok THEN ParseAssignedPorts(PsLabelLines(cs)) ELSE {}

\* podman inspect: the fields the code reads
InspectOf(c) ==
    [running |-> c.running, hostPort |-> c.hostPort, label |-> c.label,
     image |-> c.image]

NoInfo == [running |-> FALSE, hostPort |-> Undefined, label |-> Undefined, image |-> <<>>]

\* podman start binds the published port: it cannot when the port is held
CanStart(cs, c) ==
    /\ cs[c].exists
    /\ \/ cs[c].running
       \/ ~Truthy(cs[c].hostPort)
       \/ parseInt(cs[c].hostPort) \notin Listening(cs)

----------------------------------------------------------------------------
(* Error messages *)

ExhaustedMsg == <<"No available ports found">>
ConflictMsg == <<"Container port is no longer available. Please recreate the container.">>
UndeterminableMsg == <<"Could not determine container port">>
CommandFailedMsg == <<"Command failed">>

StartPrefix == "Failed to start container: "
StopPrefix == "Failed to stop container: "
DeletePrefix == "Failed to delete container: "

\* the catch blocks of startContainer, stopContainer and deleteContainer;
\* createContainer has none
Wrap(op, msg) ==
    CASE op = "start" -> <<StartPrefix>> \o msg
      [] op = "stop" -> <<StopPrefix>> \o msg
      [] op = "delete" -> <<DeletePrefix>> \o msg
      [] OTHER -> msg

----------------------------------------------------------------------------
(* The calls *)

Idle ==
    [op |-> "none", cid |-> 0, pc |-> "idle", img |-> <<>>, info |-> NoInfo,
     assigned |-> {}, allUsed |-> {}, port |-> 0, alloc |-> 0, ret |-> 0,
     err |-> <<>>, rtLog |-> <<>>, relN |-> 0, warned |-> FALSE]

Fail(cl, msg) ==
    [cl EXCEPT !.pc = "failed", !.err = Wrap(cl.op, msg),
               !.assigned = {}, !.allUsed = {}]

Done(cl, port) ==
    [cl EXCEPT !.pc = "done", !.ret = port, !.assigned = {}, !.allUsed = {}]

Issued(cl, cmd) == [cl EXCEPT !.rtLog = Append(cl.rtLog, cmd)]

\* isPortAvailable: lsof found no listener, or lsof itself failed
isPortAvailable(port, cs, toolOk) ==
    IF toolOk THEN port \notin Listening(cs) ELSE TRUE

\* the for loop of findAvailablePort up to its next await: the first
\* candidate from `from` on that the snapshot does not hold, 0 when the
\* window is exhausted
NextCandidate(allUsed, from) ==
    LET free == { q \in from..(BASE_PORT + ScanWindow - 1) : q \notin allUsed }
    IN  IF free = {} THEN 0 ELSE CHOOSE q \in free : \A r \in free : q <= r

\* a fault: the substituted port is accepted silently
ConflictIgnored(portLabel, assignedPort) == FALSE

\* startContainer: the label's port is gone and another was allocated
ConflictDetected(portLabel, assignedPort) ==
    Truthy(portLabel) /\ parseInt(portLabel) # assignedPort

\* a fault: the port next to the label's is taken
ReclaimedPortOffByOne(portLabel) == parseInt(portLabel) + 1

\* startContainer: the port the label records, reclaimed
ReclaimedPort(portLabel) == parseInt(portLabel)

\* a fault: a port is made out of whatever the inspection holds
CanDetermineAlways(info) == TRUE

\* getPortFromContainer: a binding or a label tells the port
CanDeterminePort(info) == Truthy(info.hostPort) \/ Truthy(info.label)

\* a fault: the label is preferred over the live binding
getPortLabelFirst(info) ==
    IF Truthy(info.label) THEN parseInt(info.label) ELSE parseInt(info.hostPort)

\* getPortFromContainer: the live binding first, the label otherwise
getPortFromContainer(info) ==
    IF Truthy(info.hostPort) THEN parseInt(info.hostPort) ELSE parseInt(info.label)

\* a fault: the port looked up is not registered
RegisterNothing(used, port) == used

\* getPortFromContainer: usedPorts.add(port)
RegisterPort(used, port) == used \cup {port}

\* a fault: the port stays reserved
releaseKeeps(used, port) == used

\* a fault: the whole reservation set is dropped
releaseClearsAll(used, port) == {}

\* releasePort
releasePort(used, port) == used \ {port}

\* a fault: a running container is removed without a stop
DeleteNeverStops(info) == FALSE

\* deleteContainer: if (containerInfo.State.Running) stop first
DeleteNeedsStop(info) == info.running

\* a fault: the image is removed whatever its name
ImageAlwaysRemoved(imageName) == TRUE

\* deleteContainer: the image is one of this system's
ImageIsOwn(imageName) == Truthy(imageName) /\ Includes(imageName, ImagePrefix)

SetCall(p, cl) == calls' = [calls EXCEPT ![p] = cl]

\* a caller invokes createContainer(imageName, containerId)
CallCreate(p) ==
    /\ calls[p].pc = "idle"
    /\ \A q \in Procs : q < p => calls[q].pc # "idle"
    /\ started < MaxOps
    /\ started' = started + 1
    /\ \E c \in CIDs :
          SetCall(p, [Idle EXCEPT !.op = "create", !.cid = c, !.img = OwnImage,
                                  !.pc = "query"])
    /\ UNCHANGED <<usedPorts, containers, extListen, pristine>>
    /\ UNCHANGED <<fileVars, build>>

\* a caller invokes startContainer, stopContainer or deleteContainer
CallLifecycle(p) ==
    /\ calls[p].pc = "idle"
    /\ \A q \in Procs : q < p => calls[q].pc # "idle"
    /\ started < MaxOps
    /\ started' = started + 1
    /\ \E c \in CIDs, op \in {"start", "stop", "delete"} :
          SetCall(p, [Idle EXCEPT !.op = op, !.cid = c, !.pc = "inspect"])
    /\ UNCHANGED <<usedPorts, containers, extListen, pristine>>
    /\ UNCHANGED <<fileVars, build>>

\* findAvailablePort: podman ps completes (or fails, and [] is returned)
QueryLabels(p) ==
    /\ calls[p].pc = "query"
    /\ \E ok \in BOOLEAN :
          SetCall(p, [calls[p] EXCEPT !.pc = "scan",
                        !.assigned = getAllAssignedPorts(containers, ok)])
    /\ UNCHANGED <<usedPorts, containers, extListen, pristine, started>>
    /\ UNCHANGED <<fileVars, build>>

\* findAvailablePort resumes: the snapshot of line 33 and the scan up to the
\* first probe
Snapshot(p) ==
    /\ calls[p].pc = "scan"
    /\ LET allUsed == usedPorts \cup calls[p].assigned
           cand == NextCandidate(allUsed, BASE_PORT)
       IN  IF cand = 0
           THEN SetCall(p, Fail(calls[p], ExhaustedMsg))
           ELSE SetCall(p, [calls[p] EXCEPT !.pc = "probe", !.assigned = {},
                                            !.allUsed = allUsed, !.port = cand])
    /\ UNCHANGED <<usedPorts, containers, extListen, pristine, started>>
    /\ UNCHANGED <<fileVars, build>>

\* a fault: the container is given the port after the allocated one
AfterAllocShifted(cl, port) ==
    [cl EXCEPT !.port = port + 1, !.alloc = port, !.assigned = {}, !.allUsed = {},
               !.pc = IF cl.op = "create" THEN "create" ELSE "start"]

\* what the caller of findAvailablePort does with the port it returned
AfterAlloc(cl, port) ==
    LET got == [cl EXCEPT !.port = port, !.alloc = port,
                          !.assigned = {}, !.allUsed = {}]
    IN  IF cl.op = "create" THEN [got EXCEPT !.pc = "create"]
        ELSE IF ConflictDetected(cl.info.label, port) THEN Fail(got, ConflictMsg)
        ELSE [got EXCEPT !.pc = "start"]

\* findAvailablePort: lsof completes for the candidate, found free: reserve
\* it and return it
ProbeFree(p) ==
    /\ calls[p].pc = "probe"
    /\ \E toolOk \in BOOLEAN : isPortAvailable(calls[p].port, containers, toolOk)
    /\ usedPorts' = usedPorts \cup {calls[p].port}
    /\ SetCall(p, AfterAlloc(calls[p], calls[p].port))
    /\ UNCHANGED <<containers, extListen, pristine, started>>
    /\ UNCHANGED <<fileVars, build>>

\* findAvailablePort: the candidate has a listener: on to the next one
ProbeBusy(p) ==
    /\ calls[p].pc = "probe"
    /\ ~isPortAvailable(calls[p].port, containers, TRUE)
    /\ LET cand == NextCandidate(calls[p].allUsed, calls[p].port + 1)
       IN  IF cand = 0
           THEN SetCall(p, Fail(calls[p], ExhaustedMsg))
           ELSE SetCall(p, [calls[p] EXCEPT !.port = cand])
    /\ UNCHANGED <<usedPorts, containers, extListen, pristine, started>>
    /\ UNCHANGED <<fileVars, build>>

\* podman inspect fails (no such container, or the command fails)
InspectFails(p) ==
    /\ calls[p].pc = "inspect"
    /\ SetCall(p, Fail(calls[p], CommandFailedMsg))
    /\ UNCHANGED <<usedPorts, containers, extListen, pristine, started>>
    /\ UNCHANGED <<fileVars, build>>

\* inspect succeeded, and neither a binding nor a label tells the port
PortUndeterminable(p) ==
    /\ calls[p].pc = "inspect"
    /\ containers[calls[p].cid].exists
    /\ LET info == InspectOf(containers[calls[p].cid])
       IN  /\ calls[p].op = "start" => info.running
           /\ ~CanDeterminePort(info)
           /\ SetCall(p, Fail([calls[p] EXCEPT !.info = info], UndeterminableMsg))
    /\ UNCHANGED <<usedPorts, containers, extListen, pristine, started>>
    /\ UNCHANGED <<fileVars, build>>

\* startContainer on a running container
StartRunning(p) ==
    /\ calls[p].pc = "inspect"
    /\ calls[p].op = "start"
    /\ containers[calls[p].cid].exists
    /\ LET info == InspectOf(containers[calls[p].cid])
           port == getPortFromContainer(info)
       IN  /\ info.running
           /\ CanDeterminePort(info)
           /\ usedPorts' = RegisterPort(usedPorts, port)
           /\ SetCall(p, Done([calls[p] EXCEPT !.info = info], port))
    /\ UNCHANGED <<containers, extListen, pristine, started>>
    /\ UNCHANGED <<fileVars, build>>

\* startContainer on a stopped container: probe the label's port, or
\* allocate when there is no label
StartStopped(p) ==
    /\ calls[p].pc = "inspect"
    /\ calls[p].op = "start"
    /\ containers[calls[p].cid].exists
    /\ LET info == InspectOf(containers[calls[p].cid])
       IN  /\ ~info.running
           /\ SetCall(p, [calls[p] EXCEPT !.info = info,
                   !.pc = IF Truthy(info.label) THEN "probeLabel" ELSE "query"])
    /\ UNCHANGED <<usedPorts, containers, extListen, pristine, started>>
    /\ UNCHANGED <<fileVars, build>>

\* startContainer: the label's port is free: reclaim and reserve it
ReclaimLabel(p) ==
    /\ calls[p].pc = "probeLabel"
    /\ \E toolOk \in BOOLEAN :
          isPortAvailable(parseInt(calls[p].info.label), containers, toolOk)
    /\ LET port == ReclaimedPort(calls[p].info.label)
       IN  /\ usedPorts' = usedPorts \cup {port}
           /\ SetCall(p, [calls[p] EXCEPT !.pc = "start", !.port = port])
    /\ UNCHANGED <<containers, extListen, pristine, started>>
    /\ UNCHANGED <<fileVars, build>>

\* startContainer: the label's port has a listener: allocate another
LabelBusy(p) ==
    /\ calls[p].pc = "probeLabel"
    /\ ~isPortAvailable(parseInt(calls[p].info.label), containers, TRUE)
    /\ SetCall(p, [calls[p] EXCEPT !.pc = "query"])
    /\ UNCHANGED <<usedPorts, containers, extListen, pristine, started>>
    /\ UNCHANGED <<fileVars, build>>

\* stopContainer and deleteContainer after inspect: the port is looked up
\* (and registered), then released
ReleaseInspected(p) ==
    /\ calls[p].pc = "inspect"
    /\ calls[p].op \in {"stop", "delete"}
    /\ containers[calls[p].cid].exists
    /\ LET info == InspectOf(containers[calls[p].cid])
           port == getPortFromContainer(info)
       IN  /\ CanDeterminePort(info)
           /\ usedPorts' = releasePort(RegisterPort(usedPorts, port), port)
           /\ SetCall(p, [calls[p] EXCEPT !.info = info, !.port = port,
                   !.relN = calls[p].relN + 1,
                   !.pc = IF calls[p].op = "stop" \/ DeleteNeedsStop(info)
                          THEN "stop" ELSE "rm"])
    /\ pristine' = FALSE
    /\ UNCHANGED <<containers, extListen, started>>
    /\ UNCHANGED <<fileVars, build>>

\* podman create completes
RuntimeCreate(p) ==
    /\ calls[p].pc = "create"
    /\ LET cl == Issued(calls[p], "create")
       IN  \/ /\ ~containers[cl.cid].exists
              /\ containers' = [containers EXCEPT ![cl.cid] =
                     Container(FALSE, TRUE, ToStr(cl.port), ToStr(cl.port), cl.img)]
              /\ SetCall(p, [cl EXCEPT !.pc = "start"])
           \/ /\ SetCall(p, Fail(cl, CommandFailedMsg))
              /\ UNCHANGED containers
    /\ UNCHANGED <<usedPorts, extListen, pristine, started>>
    /\ UNCHANGED <<fileVars, build>>

\* podman start completes
RuntimeStart(p) ==
    /\ calls[p].pc = "start"
    /\ LET cl == Issued(calls[p], "start")
       IN  \/ /\ CanStart(containers, cl.cid)
              /\ containers' = [containers EXCEPT ![cl.cid].running = TRUE]
              /\ SetCall(p, Done(cl, cl.port))
           \/ /\ SetCall(p, Fail(cl, CommandFailedMsg))
              /\ UNCHANGED containers
    /\ UNCHANGED <<usedPorts, extListen, pristine, started>>
    /\ UNCHANGED <<fileVars, build>>

\* podman stop completes
RuntimeStop(p) ==
    /\ calls[p].pc = "stop"
    /\ LET cl == Issued(calls[p], "stop")
       IN  \/ /\ containers[cl.cid].exists
              /\ containers' = [containers EXCEPT ![cl.cid].running = FALSE]
              /\ SetCall(p, IF cl.op = "stop" THEN Done(cl, 0)
                            ELSE [cl EXCEPT !.pc = "rm"])
           \/ /\ SetCall(p, Fail(cl, CommandFailedMsg))
              /\ UNCHANGED containers
    /\ UNCHANGED <<usedPorts, extListen, pristine, started>>
    /\ UNCHANGED <<fileVars, build>>

\* podman rm -f completes
RuntimeRemove(p) ==
    /\ calls[p].pc = "rm"
    /\ LET cl == Issued(calls[p], "rm")
       IN  \/ /\ containers' = [containers EXCEPT ![cl.cid] = Absent]
              /\ SetCall(p, IF ImageIsOwn(cl.info.image)
                            THEN [cl EXCEPT !.pc = "rmi"] ELSE Done(cl, 0))
           \/ /\ SetCall(p, Fail(cl, CommandFailedMsg))
              /\ UNCHANGED containers
    /\ UNCHANGED <<usedPorts, extListen, pristine, started>>
    /\ UNCHANGED <<fileVars, build>>

\* podman rmi -f completes or fails: the failure is logged only
\* (console.warn)
RuntimeRemoveImage(p) ==
    /\ calls[p].pc = "rmi"
    /\ \E ok \in BOOLEAN :
          SetCall(p, Done([Issued(calls[p], "rmi") EXCEPT !.warned = ~ok], 0))
    /\ UNCHANGED <<usedPorts, containers, extListen, pristine, started>>
    /\ UNCHANGED <<fileVars, build>>

\* the caller has the result (or the error)
Return(p) ==
    /\ calls[p].pc \in {"done", "failed"}
    /\ SetCall(p, Idle)
    /\ UNCHANGED <<usedPorts, containers, extListen, pristine, started>>
    /\ UNCHANGED <<fileVars, build>>

PodInit ==
    /\ usedPorts = {}
    /\ containers \in [CIDs -> PreExisting]
    /\ \A c \in CIDs : c > 1 => containers[c] = Absent
    /\ extListen \in {{}, {BASE_PORT}}
    /\ calls = [p \in Procs |-> Idle]
    /\ pristine = ((\A c \in CIDs : ~containers[c].exists) /\ extListen = {})
    /\ started = 0

----------------------------------------------------------------------------
(* podman.ts: buildImage *)

\* the containerId the caller passes, and the image name made from it
BuildId == <<"1">>

imageNameOf(containerId) == ImagePrefix \o containerId

BIdle ==
    [pc |-> "idle", dirExists |-> FALSE, built |-> FALSE, rms |-> 0,
     thrown |-> "none", res |-> <<>>, err |-> "none"]

\* fs.rm(tempDir, { recursive: true, force: true }) removes the directory
\* when the call succeeds
RmRemoves(exists, ok) == IF ok THEN FALSE ELSE exists

\* the catch block of buildImage: remove the directory, rethrow
BuildCaught(b, what) == [b EXCEPT !.pc = "catch", !.thrown = what]

\* a caller invokes buildImage(containerId)
BuildCall ==
    /\ build.pc = "idle"
    /\ build' = [BIdle EXCEPT !.pc = "mkdir", !.dirExists = build.dirExists]
    /\ UNCHANGED <<podVars, fileVars>>

\* fs.mkdir(tempDir) completes; it is outside the try block
BuildMkdir ==
    /\ build.pc = "mkdir"
    /\ \/ build' = [build EXCEPT !.pc = "read", !.dirExists = TRUE]
       \/ build' = [build EXCEPT !.pc = "done", !.thrown = "mkdir", !.err = "mkdir"]
    /\ UNCHANGED <<podVars, fileVars>>

\* getContainerfile completes
BuildReadContainerfile ==
    /\ build.pc = "read"
    /\ \/ build' = [build EXCEPT !.pc = "write"]
       \/ build' = BuildCaught(build, "read")
    /\ UNCHANGED <<podVars, fileVars>>

\* fs.writeFile(tempDir/Containerfile) completes
BuildWriteContainerfile ==
    /\ build.pc = "write"
    /\ \/ build' = [build EXCEPT !.pc = "build"]
       \/ build' = BuildCaught(build, "write")
    /\ UNCHANGED <<podVars, fileVars>>

\* podman build completes
BuildRun ==
    /\ build.pc = "build"
    /\ \/ build' = [build EXCEPT !.pc = "rm", !.built = TRUE]
       \/ build' = BuildCaught(build, "build")
    /\ UNCHANGED <<podVars, fileVars>>

\* fs.rm(tempDir) after the build (line 81), inside the try block
BuildRemoveDir ==
    /\ build.pc = "rm"
    /\ \E ok \in BOOLEAN :
          LET b == [build EXCEPT !.rms = build.rms + 1,
                                 !.dirExists = RmRemoves(build.dirExists, ok)]
          IN  build' = IF ok
                       THEN [b EXCEPT !.pc = "done", !.res = imageNameOf(BuildId)]
                       ELSE BuildCaught(b, "rm")
    /\ UNCHANGED <<podVars, fileVars>>

\* the catch block: fs.rm(tempDir) again (line 84), not guarded; then the
\* caught error is rethrown
BuildCatch ==
    /\ build.pc = "catch"
    /\ \E ok \in BOOLEAN :
          build' = [build EXCEPT !.pc = "done", !.rms = build.rms + 1,
                                 !.dirExists = RmRemoves(build.dirExists, ok),
                                 !.err = IF ok THEN build.thrown ELSE "rm"]
    /\ UNCHANGED <<podVars, fileVars>>

\* the caller has the image name (or the error)
BuildReturn ==
    /\ build.pc = "done"
    /\ build' = [BIdle EXCEPT !.dirExists = build.dirExists]
    /\ UNCHANGED <<podVars, fileVars>>

----------------------------------------------------------------------------
(* file.ts: writeFile *)

BASE_PATH ==
    <<"/", "a", "p", "p", "/", "m", "y", "-", "n", "e", "x", "t", "j", "s",
      "-", "a", "p", "p">>

\* String.prototype.lastIndexOf for one character, 0-based, -1 when absent
LastIndexOf(s, ch) ==
    LET at == { i \in 1..Len(s) : s[i] = ch }
    IN  IF at = {} THEN -1 ELSE (CHOOSE i \in at : \A j \in at : j <= i) - 1

\* String.prototype.substring(0, end); a negative end counts as 0
Substring0(s, end) == IF end <= 0 THEN <<>> ELSE SubSeq(s, 1, end)

getAbsolutePath(filePath) ==
    IF filePath # <<>> /\ Head(filePath) = "/" THEN filePath
    ELSE BASE_PATH \o <<"/">> \o filePath

\* writeFile: the directory of the target, for mkdir -p
DirOf(absolutePath) == Substring0(absolutePath, LastIndexOf(absolutePath, "/"))

\* the filePath arguments the callers pass
FilePaths == { <<"a">>, <<"s", "/", "a">>, <<"/", "x", "/", "b">> }

WIdle ==
    [pc |-> "idle", path |-> <<>>, created |-> FALSE, copies |-> 0,
     mkdirs |-> 0, unlinks |-> 0, lastUnlink |-> "none", res |-> "none",
     thrownBy |-> "none"]

SetWrite(w, r) == writes' = [writes EXCEPT ![w] = r]

\* a fault: the copy is retried although mkdir failed
CaughtButRetries(r, step) ==
    IF step = "mkdir" THEN [r EXCEPT !.pc = "copy2"]
    ELSE [r EXCEPT !.pc = "catch", !.thrownBy = step]

\* the outer catch block: the error is kept and rethrown after the cleanup
Caught(r, step) == [r EXCEPT !.pc = "catch", !.thrownBy = step]

\* fs.unlink removes the file when it is there and the call succeeds
UnlinkRemoves(exists, ok) == exists /\ ok

\* a fault: the catch block rethrows without unlinking
CatchSkipsUnlink(step) == FALSE

\* the catch block unlinks the temp file, whatever step threw
CatchUnlinksAfter(step) == TRUE

\* a caller invokes writeFile(containerId, filePath, content)
WriteCall(w) ==
    /\ writes[w].pc = "idle"
    /\ \E f \in FilePaths :
          SetWrite(w, [WIdle EXCEPT !.pc = "write", !.path = getAbsolutePath(f)])
    /\ UNCHANGED <<tempFiles, remoteDirs, tree>>
    /\ UNCHANGED <<podVars, build>>

\* fs.writeFile(tempFile) completes
WriteTemp(w) ==
    /\ writes[w].pc = "write"
    /\ \/ /\ tempFiles' = tempFiles \cup {w}
          /\ SetWrite(w, [writes[w] EXCEPT !.pc = "copy1", !.created = TRUE])
       \/ \E partial \in BOOLEAN :
             /\ tempFiles' = IF partial THEN tempFiles \cup {w} ELSE tempFiles
             /\ SetWrite(w, Caught([writes[w] EXCEPT !.created = partial], "write"))
    /\ UNCHANGED <<remoteDirs, tree>>
    /\ UNCHANGED <<podVars, build>>

\* the first podman cp completes
FirstCopy(w) ==
    /\ writes[w].pc = "copy1"
    /\ LET r == [writes[w] EXCEPT !.copies = writes[w].copies + 1]
       IN  \/ /\ DirOf(r.path) \in remoteDirs
              /\ SetWrite(w, [r EXCEPT !.pc = "verify"])
           \/ SetWrite(w, [r EXCEPT !.pc = "mkdir"])
    /\ UNCHANGED <<tempFiles, remoteDirs, tree>>
    /\ UNCHANGED <<podVars, build>>

\* podman exec mkdir -p completes
MakeDir(w) ==
    /\ writes[w].pc = "mkdir"
    /\ LET r == [writes[w] EXCEPT !.mkdirs = writes[w].mkdirs + 1]
       IN  \/ /\ remoteDirs' = remoteDirs \cup {DirOf(r.path)}
              /\ SetWrite(w, [r EXCEPT !.pc = "copy2"])
           \/ /\ SetWrite(w, Caught(r, "mkdir"))
              /\ UNCHANGED remoteDirs
    /\ UNCHANGED <<tempFiles, tree>>
    /\ UNCHANGED <<podVars, build>>

\* the retried podman cp completes
RetryCopy(w) ==
    /\ writes[w].pc = "copy2"
    /\ LET r == [writes[w] EXCEPT !.copies = writes[w].copies + 1]
       IN  \/ /\ DirOf(r.path) \in remoteDirs
              /\ SetWrite(w, [r EXCEPT !.pc = "verify"])
           \/ SetWrite(w, Caught(r, "copy"))
    /\ UNCHANGED <<tempFiles, remoteDirs, tree>>
    /\ UNCHANGED <<podVars, build>>

\* the verification read completes or fails: logged either way
Verify(w) ==
    /\ writes[w].pc = "verify"
    /\ SetWrite(w, [writes[w] EXCEPT !.pc = "unlink"])
    /\ UNCHANGED <<tempFiles, remoteDirs, tree>>
    /\ UNCHANGED <<podVars, build>>

\* fs.unlink(tempFile) after the copy (line 304)
Unlink(w) ==
    /\ writes[w].pc = "unlink"
    /\ \E ok \in BOOLEAN :
          LET gone == UnlinkRemoves(w \in tempFiles, ok)
              r == [writes[w] EXCEPT !.unlinks = writes[w].unlinks + 1,
                                     !.lastUnlink = IF gone THEN "ok" ELSE "failed"]
          IN  /\ tempFiles' = IF gone THEN tempFiles \ {w} ELSE tempFiles
              /\ SetWrite(w, IF gone THEN [r EXCEPT !.pc = "done", !.res = "ok"]
                             ELSE Caught(r, "unlink"))
    /\ UNCHANGED <<remoteDirs, tree>>
    /\ UNCHANGED <<podVars, build>>

\* the catch block: unlink the temp file, log a failure of that, rethrow
CatchCleanup(w) ==
    /\ writes[w].pc = "catch"
    /\ \E ok \in BOOLEAN :
          LET attempt == CatchUnlinksAfter(writes[w].thrownBy)
              gone == attempt /\ UnlinkRemoves(w \in tempFiles, ok)
          IN  /\ tempFiles' = IF gone THEN tempFiles \ {w} ELSE tempFiles
              /\ SetWrite(w, [writes[w] EXCEPT !.pc = "done", !.res = "error",
                     !.unlinks = IF attempt THEN writes[w].unlinks + 1
                                 ELSE writes[w].unlinks,
                     !.lastUnlink = IF ~attempt THEN writes[w].lastUnlink
                                    ELSE IF gone THEN "ok" ELSE "failed"])
    /\ UNCHANGED <<remoteDirs, tree>>
    /\ UNCHANGED <<podVars, build>>

\* the caller has the result (or the error); the next call of this slot names
\* a fresh temp file, and a file left behind is not looked at again
WriteReturn(w) ==
    /\ writes[w].pc = "done"
    /\ SetWrite(w, WIdle)
    /\ tempFiles' = tempFiles \ {w}
    /\ UNCHANGED <<remoteDirs, tree>>
    /\ UNCHANGED <<podVars, build>>

----------------------------------------------------------------------------
(* file.ts: getFileTree, getFileContentTree, readFilesBatch *)

\* the source reads 50 files at once; the model reads batchSize of them
batchSize == 2

\* the directory the traversal starts from, and what may be under it
Root == <<"/", "r">>
DirA == Root \o <<"/", "a">>
FileAB == DirA \o <<"/", "b">>
FileC == Root \o <<"/", "c">>
FileD == Root \o <<"/", "d">>
FileAdash == Root \o <<"/", "a", "-">>
DirAD == DirA \o <<"/", "d">>

\* the remote trees a call may meet: the paths find prints below Root
RemoteTrees ==
    { {}, {FileC}, {DirA, FileAB}, {DirA, FileAB, FileC}, {DirA, FileAB, FileC, FileD},
      {DirA, FileAdash, FileAB, DirAD} }

RemoteIsDirectory(path) == path \in {DirA, DirAD}

\* what cat prints for a path: a directory prints nothing
RemoteBytes(path) ==
    CASE path = FileAB -> <<"BOM", "x">>
      [] path = FileC -> <<"y">>
      [] OTHER -> <<>>

\* the characters of the paths, in the order sort compares them
CharOrder == <<"-", ".", "/", "a", "b", "c", "d", "r">>

CharCode(ch) == CHOOSE i \in 1..Len(CharOrder) : CharOrder[i] = ch

RECURSIVE StrLess(_, _)
StrLess(s, t) ==
    IF t = <<>> THEN FALSE
    ELSE IF s = <<>> THEN TRUE
    ELSE IF Head(s) = Head(t) THEN StrLess(Tail(s), Tail(t))
    ELSE CharCode(Head(s)) < CharCode(Head(t))

RECURSIVE SortPaths(_)
\* the output lines of find ... | sort
SortPaths(S) ==
    IF S = {} THEN <<>>
    ELSE LET least == CHOOSE x \in S : \A y \in S \ {x} : StrLess(x, y)
         IN  <<least>> \o SortPaths(S \ {least})

\* output.trim().split("\n").filter((p) => p && p !== containerPath)
FilterPaths(lines, containerPath) ==
    SelectSeq(lines, LAMBDA l : l # <<>> /\ l # containerPath)

\* String.prototype.replace(pattern, "") for a string pattern: the first
\* occurrence goes
RemoveFirst(s, sub) ==
    LET at == { i \in 1..(Len(s) - Len(sub) + 1) : SubSeq(s, i, i + Len(sub) - 1) = sub }
    IN  IF at = {} \/ sub = <<>> THEN s
        ELSE LET i == CHOOSE k \in at : \A m \in at : k <= m
             IN  SubSeq(s, 1, i - 1) \o SubSeq(s, i + Len(sub), Len(s))

\* relativePath.split("/") and its last part
LastPart(s) == SubSeq(s, LastIndexOf(s, "/") + 2, Len(s))

NameOf(filePath, containerPath) ==
    LastPart(RemoveFirst(filePath, containerPath \o <<"/">>))

\* getFileStat: a failed stat is a file
getFileStat(path, ok) == [isDirectory |-> ok /\ RemoteIsDirectory(path)]

MakeItem(filePath, containerPath, stat) ==
    [name |-> NameOf(filePath, containerPath), path |-> filePath,
     type |-> IF stat.isDirectory THEN "directory" ELSE "file"]

\* a fault: every node is pushed to the root's children
AttachFlat(kids, filePath, containerPath) ==
    [kids EXCEPT ![containerPath] = Append(@, filePath)]

\* parent.children.push(fileItem), when the parent is in the map and has
\* children
Attach(kids, filePath, containerPath) ==
    LET parentPath == Substring0(filePath, LastIndexOf(filePath, "/"))
        key == IF parentPath = <<>> THEN containerPath ELSE parentPath
    IN  IF key \in DOMAIN kids
        THEN [kids EXCEPT ![key] = Append(@, filePath)]
        ELSE kids

RECURSIVE AttachAll(_, _, _)
\* getFileContentTree: the loop over pathToItemMap.values()
AttachAll(kids, items, containerPath) ==
    IF items = <<>> THEN kids
    ELSE AttachAll(Attach(kids, Head(items).path, containerPath), Tail(items),
                   containerPath)

\* readFile: a leading byte order mark is stripped
readFile(bytes) ==
    IF bytes # <<>> /\ Head(bytes) = "BOM" THEN Tail(bytes) ELSE bytes

\* readFilesBatch: what the catch of one read puts in its place
Placeholder(msg) == <<"Error reading file: ">> \o msg

\* a fault: a failed read becomes an empty content
BatchEntrySwallowed(path, ok) ==
    IF ok THEN readFile(RemoteBytes(path)) ELSE <<>>

\* readFilesBatch: the entry of one file of a batch
BatchEntry(path, ok) ==
    IF ok THEN readFile(RemoteBytes(path)) ELSE Placeholder(CommandFailedMsg)

\* a fault: all the remaining files are read at once
BatchWhole(filePaths, i) == SubSeq(filePaths, i, Len(filePaths))

\* filePaths.slice(i, i + batchSize), i counted from 1 here
Batch(filePaths, i) ==
    SubSeq(filePaths, i, IF i + batchSize - 1 < Len(filePaths)
                         THEN i + batchSize - 1 ELSE Len(filePaths))

Range(f) == { f[x] : x \in DOMAIN f }

EmptyMap == [x \in {} |-> <<>>]

TIdle ==
    [pc |-> "idle", op |-> "none", fs |-> {}, paths |-> <<>>, i |-> 1,
     items |-> <<>>, kids |-> EmptyMap, toRead |-> <<>>, at |-> 1,
     pending |-> {}, settled |-> EmptyMap, results |-> EmptyMap,
     content |-> EmptyMap, forest |-> <<>>,
     failed |-> {}, returned |-> EmptyMap, inFlightMax |-> 0]

\* both traversals return the synthetic root's children
Returned(t) ==
    [t EXCEPT !.pc = "done", !.forest = t.kids[Root]]

\* getFileContentTree after readFilesBatch: contents, then the attachments
Assemble(t) ==
    LET withContent ==
            [f \in DOMAIN t.results \cap { t.items[k].path : k \in DOMAIN t.items }
                |-> t.results[f]]
    IN  Returned([t EXCEPT !.content = withContent,
                           !.kids = AttachAll(t.kids, t.items, Root)])

\* readFilesBatch at the head of its loop: the reads of the next batch are
\* all issued, or the loop is over
NextBatch(t) ==
    IF t.at > Len(t.toRead) THEN Assemble(t)
    ELSE LET batch == Batch(t.toRead, t.at)
         IN  [t EXCEPT !.pc = "read", !.pending = Range(batch),
                       !.settled = EmptyMap,
                       !.inFlightMax = IF Len(batch) > t.inFlightMax
                                       THEN Len(batch) ELSE t.inFlightMax]

\* the code after the stat loop
AfterStats(t) ==
    IF t.op = "getFileTree" THEN Returned(t) ELSE NextBatch(t)

\* a caller invokes getFileTree or getFileContentTree on a container
TreeCall ==
    /\ tree.pc = "idle"
    /\ \E op \in {"getFileTree", "getFileContentTree"}, fs \in RemoteTrees :
          tree' = [TIdle EXCEPT !.pc = "find", !.op = op, !.fs = fs]
    /\ UNCHANGED <<writes, tempFiles, remoteDirs>>
    /\ UNCHANGED <<podVars, build>>

\* the find command completes: the paths, and the map with the root in it
Find ==
    /\ tree.pc = "find"
    /\ \/ LET paths == FilterPaths(SortPaths(tree.fs \cup {Root}), Root)
              t == [tree EXCEPT !.paths = paths, !.kids = (Root :> <<>>),
                                !.pc = "stat"]
          IN  tree' = IF paths = <<>> THEN AfterStats(t) ELSE t
       \/ tree' = [tree EXCEPT !.pc = "failed"]
    /\ UNCHANGED <<writes, tempFiles, remoteDirs>>
    /\ UNCHANGED <<podVars, build>>

\* the stat of the next path completes (or fails)
Stat ==
    /\ tree.pc = "stat"
    /\ \E ok \in BOOLEAN :
          LET filePath == tree.paths[tree.i]
              stat == getFileStat(filePath, ok)
              item == MakeItem(filePath, Root, stat)
              kids1 == IF stat.isDirectory
                       THEN (filePath :> <<>>) @@ tree.kids ELSE tree.kids
              t == [tree EXCEPT
                      !.i = tree.i + 1,
                      !.items = Append(tree.items, item),
                      !.kids = IF tree.op = "getFileTree"
                               THEN Attach(kids1, filePath, Root) ELSE kids1,
                      !.toRead = IF tree.op = "getFileContentTree" /\ ~stat.isDirectory
                                 THEN Append(tree.toRead, filePath) ELSE tree.toRead]
          IN  tree' = IF t.i > Len(t.paths) THEN AfterStats(t) ELSE t
    /\ UNCHANGED <<writes, tempFiles, remoteDirs>>
    /\ UNCHANGED <<podVars, build>>

\* one read of the batch in flight completes (or fails); with the last one
\* the batch's entries go into the results and the next batch begins
ReadDone ==
    /\ tree.pc = "read"
    /\ \E f \in tree.pending, ok \in BOOLEAN :
          LET t == [tree EXCEPT
                      !.pending = tree.pending \ {f},
                      !.settled = (f :> BatchEntry(f, ok)) @@ tree.settled,
                      !.failed = IF ok THEN tree.failed ELSE tree.failed \cup {f},
                      !.returned = IF ok THEN (f :> readFile(RemoteBytes(f))) @@ tree.returned
                                   ELSE tree.returned]
          IN  tree' = IF t.pending # {} THEN t
                      ELSE NextBatch([t EXCEPT !.results = t.settled @@ t.results,
                                               !.at = t.at + batchSize])
    /\ UNCHANGED <<writes, tempFiles, remoteDirs>>
    /\ UNCHANGED <<podVars, build>>

\* the caller has the forest (or the error)
TreeReturn ==
    /\ tree.pc \in {"done", "failed"}
    /\ tree' = TIdle
    /\ UNCHANGED <<writes, tempFiles, remoteDirs>>
    /\ UNCHANGED <<podVars, build>>

----------------------------------------------------------------------------
(* The specifications *)

PodIdle ==
    /\ usedPorts = {}
    /\ containers = [c \in CIDs |-> Absent]
    /\ extListen = {}
    /\ calls = [p \in Procs |-> Idle]
    /\ pristine = TRUE
    /\ started = 0

FileIdle ==
    /\ writes = [w \in Writers |-> WIdle]
    /\ tempFiles = {}
    /\ remoteDirs = {BASE_PATH}
    /\ tree = TIdle

BuildIdle == build = BIdle

\* the container lifecycle and the port allocator
Init == PodInit /\ FileIdle /\ BuildIdle

Next ==
    \E p \in Procs :
        \/ CallCreate(p) \/ CallLifecycle(p)
        \/ QueryLabels(p) \/ Snapshot(p) \/ ProbeFree(p) \/ ProbeBusy(p)
        \/ InspectFails(p) \/ PortUndeterminable(p)
        \/ StartRunning(p) \/ StartStopped(p) \/ ReclaimLabel(p) \/ LabelBusy(p)
        \/ ReleaseInspected(p)
        \/ RuntimeCreate(p) \/ RuntimeStart(p) \/ RuntimeStop(p)
        \/ RuntimeRemove(p) \/ RuntimeRemoveImage(p)
        \/ Return(p)

Spec == Init /\ [][Next]_vars

\* the ports findAvailablePort(BASE_PORT) scans
Window == BASE_PORT..(BASE_PORT + ScanWindow - 1)

\* the ports of the scan window, and the one next to it
NearPorts == BASE_PORT..(BASE_PORT + ScanWindow)

\* one createContainer call at a time, in a process that has reserved ports
\* before, beside listeners and a container that are there already
AllocInit ==
    /\ usedPorts \in SUBSET NearPorts
    /\ containers \in [CIDs -> PreExisting]
    /\ \A c \in CIDs : c > 1 => containers[c] = Absent
    /\ extListen \in SUBSET Window
    /\ calls = [p \in Procs |-> Idle]
    /\ pristine = FALSE
    /\ started = 0
    /\ FileIdle
    /\ BuildIdle

AllocNext ==
    \/ CallCreate(1)
    \/ QueryLabels(1) \/ Snapshot(1) \/ ProbeFree(1) \/ ProbeBusy(1)
    \/ RuntimeCreate(1) \/ RuntimeStart(1)
    \/ Return(1)

SpecAlloc == AllocInit /\ [][AllocNext]_vars

\* writeFile calls
WriteInit == PodIdle /\ FileIdle /\ BuildIdle

WriteNext ==
    \E w \in Writers :
        \/ WriteCall(w) \/ WriteTemp(w) \/ FirstCopy(w) \/ MakeDir(w)
        \/ RetryCopy(w) \/ Verify(w) \/ Unlink(w) \/ CatchCleanup(w)
        \/ WriteReturn(w)

SpecWrite == WriteInit /\ [][WriteNext]_vars

\* writeFile and buildImage calls: the operations that clean up after
\* themselves
CleanupNext ==
    \/ \E w \in Writers :
          \/ WriteCall(w) \/ WriteTemp(w) \/ FirstCopy(w) \/ MakeDir(w)
          \/ RetryCopy(w) \/ Verify(w) \/ Unlink(w) \/ CatchCleanup(w)
          \/ WriteReturn(w)
    \/ BuildCall \/ BuildMkdir \/ BuildReadContainerfile
    \/ BuildWriteContainerfile \/ BuildRun \/ BuildRemoveDir \/ BuildCatch
    \/ BuildReturn

SpecCleanup == WriteInit /\ [][CleanupNext]_vars

\* file tree calls
TreeInit == PodIdle /\ FileIdle /\ BuildIdle

TreeNext == TreeCall \/ Find \/ Stat \/ ReadDone \/ TreeReturn

SpecTree == TreeInit /\ [][TreeNext]_vars

----------------------------------------------------------------------------
(* Claims about the port allocator and the container lifecycle *)

\* the ports a container is bound to: its port binding and its assignedPort
\* label
BoundPorts(c) ==
    (IF Truthy(c.hostPort) THEN {parseInt(c.hostPort)} ELSE {})
        \cup (IF Truthy(c.label) THEN {parseInt(c.label)} ELSE {})

\* the assignedPort labels of the existing project containers
LabeledPorts(cs) ==
    { parseInt(cs[c].label) :
        c \in { d \in CIDs : cs[d].exists /\ cs[d].project /\ Truthy(cs[d].label) } }

\* findAvailablePort returns to call p in this step
AllocReturns(p) == calls[p].pc = "probe" /\ calls[p].alloc = 0 /\ calls'[p].alloc # 0

\* startContainer returns to call p in this step from its running branch
StartOnRunningReturns(p) ==
    calls[p].op = "start" /\ calls[p].pc = "inspect" /\ calls'[p].pc = "done"

\* C1: with nothing pre-existing (no container, no listener) and no release so
\* far, the ports findAvailablePort has returned to the calls in flight are
\* pairwise distinct.
C1_ConcurrentAllocDistinct ==
    pristine =>
        \A a, b \in Procs :
            (a # b /\ calls[a].alloc # 0 /\ calls[b].alloc # 0)
                => calls[a].alloc # calls[b].alloc

\* C2: no two existing containers of this system are bound to the same host
\* port (port binding or assignedPort label).
C2_NoSharedBoundPort ==
    \A c, d \in CIDs :
        (c # d /\ containers[c].exists /\ containers[d].exists
            /\ containers[c].project /\ containers[d].project)
            => BoundPorts(containers[c]) \cap BoundPorts(containers[d]) = {}

\* C3: with the local reservation set empty (a fresh process), the port
\* findAvailablePort returns is never the assignedPort label of an existing
\* project container, whatever the label query did.
C3_NeverLabeledPortAfterRestart ==
    [][\A p \in Procs :
          (usedPorts = {} /\ AllocReturns(p))
              => calls'[p].alloc \notin LabeledPorts(containers)]_vars

\* C4: startContainer on a stopped container labelled P that fell back to
\* findAvailablePort and got a port other than P has failed with the
\* port-conflict error and has issued no runtime command.
C4_ConflictFailsBeforeStart ==
    \A p \in Procs :
        (calls[p].op = "start" /\ Truthy(calls[p].info.label)
            /\ calls[p].alloc # 0
            /\ calls[p].alloc # parseInt(calls[p].info.label))
            => /\ calls[p].pc = "failed"
               /\ calls[p].err = <<StartPrefix>> \o ConflictMsg
               /\ calls[p].rtLog = <<>>

W_C4_ConflictRaised ==
    \E p \in Procs :
        /\ calls[p].op = "start" /\ calls[p].pc = "failed"
        /\ ~calls[p].info.running
        /\ calls[p].info.label = ToStr(BASE_PORT)
        /\ calls[p].alloc = BASE_PORT + 1
        /\ containers[calls[p].cid] =
               Container(FALSE, TRUE, ToStr(BASE_PORT), ToStr(BASE_PORT), OwnImage)

\* C5: startContainer on a stopped container labelled P: when P has no
\* listener it reserves P and goes on to the runtime start with P; a call that
\* succeeds has issued exactly the runtime start and returns P.
C5_ReclaimsExactlyLabel ==
    /\ [](\A p \in Procs :
            (calls[p].op = "start" /\ calls[p].pc = "done"
                /\ ~calls[p].info.running /\ Truthy(calls[p].info.label))
                => /\ calls[p].ret = parseInt(calls[p].info.label)
                   /\ calls[p].rtLog = <<"start">>)
    /\ [][\A p \in Procs :
            (calls[p].pc = "probeLabel" /\ calls'[p] # calls[p]
                /\ parseInt(calls[p].info.label) \notin Listening(containers))
                => /\ calls'[p].pc = "start"
                   /\ calls'[p].port = parseInt(calls[p].info.label)
                   /\ usedPorts' = usedPorts \cup {parseInt(calls[p].info.label)}]_vars

W_C5_Reclaimed ==
    \E p \in Procs :
        /\ calls[p].op = "start" /\ calls[p].pc = "done"
        /\ ~calls[p].info.running
        /\ calls[p].info.label = ToStr(BASE_PORT)
        /\ calls[p].alloc = 0
        /\ calls[p].ret = BASE_PORT
        /\ BASE_PORT \in usedPorts
        /\ containers[calls[p].cid].running

\* C6: startContainer on a container inspected as running issues no runtime
\* command, and what it returns is the host port of the 3000/tcp binding when
\* one is reported and the assignedPort label's port otherwise.
C6_RunningReturnsBoundPort ==
    \A p \in Procs :
        (calls[p].op = "start" /\ calls[p].info.running)
            => /\ calls[p].rtLog = <<>>
               /\ calls[p].pc = "done" =>
                    calls[p].ret =
                        IF calls[p].info.hostPort \notin {Undefined, <<>>}
                        THEN parseInt(calls[p].info.hostPort)
                        ELSE parseInt(calls[p].info.label)

W_C6_BindingPreferred ==
    \E p \in Procs :
        /\ calls[p].op = "start" /\ calls[p].pc = "done"
        /\ calls[p].info.running
        /\ calls[p].info.hostPort = ToStr(BASE_PORT + 1)
        /\ calls[p].info.label = ToStr(BASE_PORT)
        /\ calls[p].ret = BASE_PORT + 1

\* C7 as stated: startContainer on a running container leaves the local
\* reservation set as it was.
C7_RunningStartNoSideEffect ==
    [][\A p \in Procs : StartOnRunningReturns(p) => usedPorts' = usedPorts]_vars

\* C7 amended: startContainer on a running container issues no runtime
\* command and leaves the containers alone; its one side effect is that the
\* port it returns is in the local reservation set afterwards.
C7_RunningStartRegistersPort ==
    [][\A p \in Procs :
          StartOnRunningReturns(p)
              => /\ usedPorts' = usedPorts \cup {calls'[p].ret}
                 /\ containers' = containers
                 /\ calls'[p].rtLog = <<>>]_vars

W_C7_PortRegistered ==
    \E p \in Procs :
        /\ calls[p].op = "start" /\ calls[p].pc = "done"
        /\ calls[p].info.running
        /\ started = 1
        /\ usedPorts = {calls[p].ret}

\* C8: deleteContainer has released the port exactly once when it goes on
\* after inspect; when it has issued the remove, its runtime commands began
\* with stop, remove for a container inspected as running and with remove,
\* and no stop at all, for a stopped one.
C8_DeleteStopsBeforeRemove ==
    \A p \in Procs :
        (calls[p].op = "delete")
            => /\ calls[p].relN <= 1
               /\ calls[p].pc \in {"stop", "rm", "rmi", "done"} => calls[p].relN = 1
               /\ (\E i \in DOMAIN calls[p].rtLog : calls[p].rtLog[i] = "rm")
                    => IF calls[p].info.running
                       THEN /\ Len(calls[p].rtLog) >= 2
                            /\ calls[p].rtLog[1] = "stop"
                            /\ calls[p].rtLog[2] = "rm"
                            /\ \A i \in DOMAIN calls[p].rtLog : i > 1 => calls[p].rtLog[i] # "stop"
                       ELSE /\ calls[p].rtLog[1] = "rm"
                            /\ \A i \in DOMAIN calls[p].rtLog : calls[p].rtLog[i] # "stop"

W_C8_RunningDeleted ==
    \E p \in Procs :
        /\ calls[p].op = "delete" /\ calls[p].pc = "done"
        /\ calls[p].info.running
        /\ calls[p].relN = 1
        /\ calls[p].rtLog = <<"stop", "rm", "rmi">>
        /\ ~containers[calls[p].cid].exists

\* C11: releasePort(p) takes p out of the local reservation set whatever the
\* set holds, leaves every other port as it was, changes nothing when p is
\* not reserved, and twice is the same as once; the release stopContainer and
\* deleteContainer do takes exactly the container's port out of the set.
C11_ReleaseIdempotent ==
    /\ [](\A port \in NearPorts :
            LET once == releasePort(usedPorts, port)
            IN  /\ port \notin once
                /\ port \notin usedPorts => once = usedPorts
                /\ releasePort(once, port) = once
                /\ once \cup {port} = usedPorts \cup {port})
    /\ [][\A p \in Procs :
            (calls'[p].relN = calls[p].relN + 1)
                => usedPorts' = usedPorts \ {calls'[p].port}]_vars

W_C11_ReleasedOthersKept ==
    \E p \in Procs :
        /\ calls[p].op = "stop" /\ calls[p].relN = 1
        /\ calls[p].port = BASE_PORT
        /\ usedPorts = {BASE_PORT + 1}

\* findAvailablePort throws its exhaustion error to call p in this step
AllocExhausted(p) ==
    /\ calls[p].pc \in {"scan", "probe"}
    /\ calls'[p].pc = "failed"
    /\ calls'[p].err = Wrap(calls[p].op, ExhaustedMsg)

\* the ports of the window held by a label, by the reservation set or by a
\* listener
HeldPorts ==
    { q \in Window : q \in LabeledPorts(containers) \/ q \in usedPorts
                        \/ q \in Listening(containers) }

\* C12: the port one findAvailablePort(BASE_PORT) call returns is in the
\* window, is in neither the labeled set nor the reservation set, every lower
\* port of the window is labeled, reserved or listened on, and exactly that
\* port is added to the reservation set; the exhaustion error comes only when
\* every port of the window is held, and leaves the reservation set alone.
\* (A port whose probe itself failed counts as having no listener.)
C12_AllocLowestFree ==
    [][\A p \in Procs :
          /\ AllocReturns(p)
                => /\ calls'[p].alloc \in Window
                   /\ calls'[p].alloc \notin LabeledPorts(containers)
                   /\ calls'[p].alloc \notin usedPorts
                   /\ \A q \in Window : q < calls'[p].alloc => q \in HeldPorts
                   /\ usedPorts' = usedPorts \cup {calls'[p].alloc}
          /\ AllocExhausted(p)
                => /\ HeldPorts = Window
                   /\ usedPorts' = usedPorts]_vars

\* C14: stopContainer has inspected and released the port (once) before its
\* runtime stop is in flight, and the runtime stop is the only runtime command
\* it issues; the release takes the port out of the reservation set, and a
\* failing runtime stop makes stopContainer fail with the wrapped error
\* without putting the port back: when no other call has been made, the port
\* is not in the reservation set after the failure.
C14_StopReleasesBeforeStop ==
    /\ [](\A p \in Procs :
            (calls[p].op = "stop")
                => /\ calls[p].relN <= 1
                   /\ calls[p].pc = "stop" => (calls[p].relN = 1 /\ calls[p].rtLog = <<>>)
                   /\ calls[p].rtLog # <<>>
                        => (calls[p].relN = 1 /\ calls[p].rtLog = <<"stop">>)
                   /\ (calls[p].pc = "failed" /\ calls[p].rtLog = <<"stop">>)
                        => /\ calls[p].err = <<StopPrefix, "Command failed">>
                           /\ started = 1 => calls[p].port \notin usedPorts)
    /\ [][\A p \in Procs :
            (calls[p].op = "stop")
                => /\ (calls'[p].relN = calls[p].relN + 1)
                        => (calls[p].pc = "inspect" /\ calls'[p].pc = "stop"
                              /\ calls'[p].port \notin usedPorts')
                   /\ (calls[p].pc = "stop" /\ calls'[p].pc = "failed")
                        => usedPorts' = usedPorts]_vars

W_C14_StopFailedPortReleased ==
    \E p \in Procs :
        /\ calls[p].op = "stop" /\ calls[p].pc = "failed"
        /\ calls[p].rtLog = <<"stop">> /\ calls[p].relN = 1
        /\ calls[p].port = BASE_PORT + 1
        /\ started = 1
        /\ usedPorts = {}
        /\ containers[calls[p].cid].running

\* C18: createContainer issues its runtime commands in the order create,
\* start, and only once findAvailablePort has returned; the container its
\* runtime create makes publishes the allocated port (host port of the
\* mapping to 3000) and carries it as its assignedPort label, and the port a
\* successful createContainer returns is that same port.
C18_CreateUsesAllocatedPort ==
    /\ [](\A p \in Procs :
            (calls[p].op = "create")
                => /\ calls[p].rtLog \in {<<>>, <<"create">>, <<"create", "start">>}
                   /\ (calls[p].rtLog # <<>> \/ calls[p].pc \in {"create", "start", "done"})
                        => (calls[p].alloc \in Window /\ calls[p].port = calls[p].alloc)
                   /\ calls[p].pc = "start" => calls[p].rtLog = <<"create">>
                   /\ calls[p].pc = "done"
                        => (calls[p].rtLog = <<"create", "start">>
                              /\ calls[p].ret = calls[p].alloc))
    /\ [][\A p \in Procs :
            (calls[p].op = "create" /\ calls[p].pc = "create" /\ calls'[p].pc = "start")
                => /\ ~containers[calls[p].cid].exists
                   /\ containers'[calls[p].cid].exists
                   /\ containers'[calls[p].cid].hostPort = ToStr(calls[p].alloc)
                   /\ containers'[calls[p].cid].label = ToStr(calls[p].alloc)
                   /\ parseInt(containers'[calls[p].cid].hostPort) = calls[p].alloc
                   /\ parseInt(containers'[calls[p].cid].label) = calls[p].alloc]_vars

W_C18_CreatedOnAllocatedPort ==
    \E p \in Procs :
        /\ calls[p].op = "create" /\ calls[p].pc = "done"
        /\ calls[p].rtLog = <<"create", "start">>
        /\ calls[p].alloc = BASE_PORT + 1 /\ calls[p].ret = BASE_PORT + 1
        /\ containers[calls[p].cid] =
               Container(TRUE, TRUE, ToStr(BASE_PORT + 1), ToStr(BASE_PORT + 1), OwnImage)

\* C19: deleteContainer issues the image removal only right after its
\* container removal succeeded, and only for an image whose name contains
\* dec-nextjs-; a delete that has removed the container has attempted the
\* image removal exactly when the name matches; a failed image removal leaves
\* the call successful; and out of inspect, stop and remove the call either
\* goes on or fails with the wrapped error, so a call that succeeded has had
\* none of them fail.
C19_ImageRemovalBestEffort ==
    /\ [](\A p \in Procs :
            (calls[p].op = "delete")
                => /\ (calls[p].pc = "rmi"
                          \/ \E i \in DOMAIN calls[p].rtLog : calls[p].rtLog[i] = "rmi")
                        => /\ Includes(calls[p].info.image,
                                       <<"d", "e", "c", "-", "n", "e", "x", "t", "j", "s", "-">>)
                           /\ \E i \in DOMAIN calls[p].rtLog : calls[p].rtLog[i] = "rm"
                           /\ \A i \in DOMAIN calls[p].rtLog :
                                 calls[p].rtLog[i] = "rmi"
                                    => (i > 1 /\ i = Len(calls[p].rtLog)
                                          /\ calls[p].rtLog[i - 1] = "rm")
                   /\ calls[p].pc = "done"
                        => /\ \E i \in DOMAIN calls[p].rtLog : calls[p].rtLog[i] = "rm"
                           /\ (\E i \in DOMAIN calls[p].rtLog : calls[p].rtLog[i] = "rmi")
                                <=> Includes(calls[p].info.image,
                                       <<"d", "e", "c", "-", "n", "e", "x", "t", "j", "s", "-">>)
                   /\ calls[p].warned => calls[p].pc = "done"
                   /\ calls[p].pc = "failed"
                        => /\ ~calls[p].warned
                           /\ \A i \in DOMAIN calls[p].rtLog : calls[p].rtLog[i] # "rmi"
                           /\ Len(calls[p].err) >= 1
                           /\ calls[p].err[1] = "Failed to delete container: ")
    /\ [][\A p \in Procs :
            (calls[p].op = "delete" /\ calls'[p] # calls[p])
                => /\ calls[p].pc = "inspect" => calls'[p].pc \in {"stop", "rm", "failed"}
                   /\ calls[p].pc = "stop" => calls'[p].pc \in {"rm", "failed"}
                   /\ calls[p].pc = "rm"
                        => \/ calls'[p].pc = "failed" /\ containers' = containers
                           \/ calls'[p].pc \in {"rmi", "done"}
                                /\ ~containers'[calls[p].cid].exists
                   /\ calls[p].pc = "rmi" => calls'[p].pc = "done"]_vars

W_C19_ImageRemovalFailed ==
    \E p \in Procs :
        /\ calls[p].op = "delete" /\ calls[p].pc = "done"
        /\ calls[p].warned
        /\ calls[p].rtLog = <<"rm", "rmi">>
        /\ calls[p].info.image = OwnImage
        /\ ~containers[calls[p].cid].exists

\* the inspection handed to call p tells no port: no 3000/tcp binding and no
\* assignedPort label, in a call that looks the port up
NoPortToFind(cl) ==
    /\ cl.info # NoInfo
    /\ cl.info.hostPort \in {Undefined, <<>>}
    /\ cl.info.label \in {Undefined, <<>>}
    /\ cl.op \in {"stop", "delete"} \/ (cl.op = "start" /\ cl.info.running)

\* C20: stopContainer, deleteContainer and startContainer on a running
\* container, when the inspection succeeded and shows neither a 3000/tcp
\* binding nor an assignedPort label, fail with the operation's prefix before
\* 'Could not determine container port', issue no runtime command, release
\* nothing, and the step in which they fail changes neither the reservation
\* set nor the containers.
C20_PortUndeterminableFails ==
    /\ [](\A p \in Procs :
            NoPortToFind(calls[p])
                => /\ calls[p].pc = "failed"
                   /\ calls[p].err =
                        << CASE calls[p].op = "start" -> "Failed to start container: "
                             [] calls[p].op = "stop" -> "Failed to stop container: "
                             [] OTHER -> "Failed to delete container: ",
                           "Could not determine container port" >>
                   /\ calls[p].rtLog = <<>>
                   /\ calls[p].relN = 0)
    /\ [][\A p \in Procs :
            (NoPortToFind(calls'[p]) /\ calls'[p] # calls[p])
                => /\ calls[p].pc = "inspect"
                   /\ containers[calls[p].cid].exists
                   /\ calls'[p].info = InspectOf(containers[calls[p].cid])
                   /\ usedPorts' = usedPorts
                   /\ containers' = containers]_vars

W_C20_DeleteWithoutPort ==
    \E p \in Procs :
        /\ calls[p].op = "delete" /\ calls[p].pc = "failed"
        /\ calls[p].info = InspectOf(Container(TRUE, FALSE, Undefined, Undefined, OtherImage))
        /\ calls[p].err = <<DeletePrefix>> \o UndeterminableMsg
        /\ containers[calls[p].cid].running
        /\ usedPorts = {}

\* the ports of the existing containers: bindings and labels
ContainerPorts ==
    UNION { BoundPorts(containers[c]) : c \in { d \in CIDs : containers[d].exists } }

\* C21: a createContainer call that failed in its runtime create or start,
\* and a startContainer call that failed with the port conflict after
\* allocating a substitute, leave the reservation set as it was before the
\* call (empty, for the first call of a process); and when no call is in
\* flight every reserved port is a port of some existing container.
C21_FailureLeavesNoReservation ==
    /\ \A p \in Procs :
          (started = 1 /\ calls[p].pc = "failed"
              /\ \/ calls[p].op = "create" /\ calls[p].rtLog # <<>>
                 \/ calls[p].op = "start" /\ calls[p].err = <<StartPrefix>> \o ConflictMsg)
              => usedPorts = {}
    /\ (\A p \in Procs : calls[p].pc = "idle") => usedPorts \subseteq ContainerPorts

----------------------------------------------------------------------------
(* Claims about writeFile *)

\* C9 as stated: once writeFile has returned or thrown after creating its
\* temporary file, the temporary file does not exist.
C9_TempFileAlwaysGone ==
    \A w \in Writers :
        (writes[w].pc = "done" /\ writes[w].created) => w \notin tempFiles

\* C9 amended: writeFile that returns normally has removed its temporary
\* file; writeFile that throws after creating it has tried to remove it, and
\* the file is still there only if its last removal attempt failed.
C9_TempFileGoneUnlessUnlinkFails ==
    \A w \in Writers :
        (writes[w].pc = "done" /\ writes[w].created)
            => /\ writes[w].unlinks >= 1
               /\ writes[w].res = "ok" => w \notin tempFiles
               /\ w \in tempFiles => writes[w].lastUnlink = "failed"

W_C9_CleanedAfterFailedRetry ==
    \E w \in Writers :
        /\ writes[w].pc = "done" /\ writes[w].res = "error"
        /\ writes[w].thrownBy = "copy"
        /\ writes[w].created
        /\ w \notin tempFiles

\* C15: writeFile completes at most two copies and at most one mkdir; the
\* mkdir is issued only by a failed first copy, the second copy only by a
\* mkdir that succeeded (the directory is there); a call whose mkdir or
\* second copy failed ends in an error with no copy after the failure; and a
\* call whose first copy succeeded never issues the mkdir.
C15_AtMostOneRetry ==
    /\ [](\A w \in Writers :
            /\ writes[w].copies <= 2 /\ writes[w].mkdirs <= 1
            /\ writes[w].copies = 2 => writes[w].mkdirs = 1
            /\ writes[w].thrownBy = "mkdir"
                  => (writes[w].copies = 1 /\ writes[w].mkdirs = 1
                        /\ writes[w].pc \in {"catch", "done"} /\ writes[w].res # "ok")
            /\ writes[w].thrownBy = "copy"
                  => (writes[w].copies = 2
                        /\ writes[w].pc \in {"catch", "done"} /\ writes[w].res # "ok")
            /\ (writes[w].copies = 1 /\ writes[w].pc \in {"verify", "unlink"})
                  => writes[w].mkdirs = 0
            /\ (writes[w].copies = 1 /\ writes[w].res = "ok") => writes[w].mkdirs = 0)
    /\ [][\A w \in Writers :
            /\ (writes'[w].copies = writes[w].copies + 1)
                  => \/ writes[w].pc = "copy1" /\ writes[w].copies = 0
                     \/ writes[w].pc = "copy2" /\ writes[w].copies = 1
            /\ (writes[w].pc # "mkdir" /\ writes'[w].pc = "mkdir")
                  => (writes[w].pc = "copy1" /\ writes'[w].copies = 1)
            /\ (writes[w].pc # "copy2" /\ writes'[w].pc = "copy2")
                  => /\ writes[w].pc = "mkdir"
                     /\ DirOf(writes[w].path) \in remoteDirs'
            /\ (writes[w].pc = "copy1" /\ writes'[w].pc = "verify")
                  => writes'[w].mkdirs = 0]_vars

W_C15_SecondCopySucceeded ==
    \E w \in Writers :
        /\ writes[w].pc = "done" /\ writes[w].res = "ok"
        /\ writes[w].copies = 2 /\ writes[w].mkdirs = 1
        /\ writes[w].path = <<"/", "x", "/", "b">>
        /\ <<"/", "x">> \in remoteDirs

\* C16: a failed removal of a temporary artefact changes no outcome: a
\* writeFile call whose copy succeeded returns normally even when its unlink
\* failed; a buildImage call whose build succeeded returns the image name
\* even when removing the build directory failed; and a buildImage call
\* whose main work failed raises that failure and not the cleanup's.
C16_CleanupFailureOnlyLogged ==
    /\ \A w \in Writers :
          (writes[w].pc = "done" /\ writes[w].thrownBy \notin {"write", "mkdir", "copy"})
              => writes[w].res = "ok"
    /\ (build.pc = "done" /\ build.built) => build.res = imageNameOf(BuildId)
    /\ (build.pc = "done" /\ build.thrown \in {"read", "write", "build"})
          => build.err = build.thrown

----------------------------------------------------------------------------
(* Claims about the file tree *)

\* the files of a content traversal: the paths classified as files
TreeFiles == { tree.items[k].path : k \in { j \in DOMAIN tree.items : tree.items[j].type = "file" } }

\* C10: getFileContentTree does not fail once its find has succeeded, however
\* many reads fail; when it has returned, every file whose read failed has
\* the failure placeholder as its content and every other file has exactly
\* what its read returned.
C10_ReadFailuresBecomePlaceholders ==
    /\ (tree.pc = "failed") => (tree.paths = <<>> /\ tree.failed = {})
    /\ (tree.op = "getFileContentTree" /\ tree.pc = "done")
          => /\ DOMAIN tree.content = TreeFiles
             /\ \A f \in TreeFiles :
                   tree.content[f] =
                       IF f \in tree.failed
                       THEN <<"Error reading file: ", "Command failed">>
                       ELSE tree.returned[f]

W_C10_OneReadFailed ==
    /\ tree.op = "getFileContentTree" /\ tree.pc = "done"
    /\ tree.fs = {DirA, FileAB, FileC, FileD}
    /\ TreeFiles = {FileAB, FileC, FileD}
    /\ tree.failed = {FileC}
    /\ tree.content[FileAB] = <<"x">>
    /\ tree.content[FileC] = <<"Error reading file: ", "Command failed">>
    /\ tree.content[FileD] = <<>>

\* path is directly below dir: dir, one slash, one name
IsChildOf(path, dir) ==
    /\ Len(path) > Len(dir) + 1
    /\ SubSeq(path, 1, Len(dir)) = dir
    /\ path[Len(dir) + 1] = "/"
    /\ \A i \in (Len(dir) + 2)..Len(path) : path[i] # "/"

\* the paths the traversal has classified so far, each as what it is
ClassifiedRight ==
    \A k \in DOMAIN tree.items :
        (tree.items[k].type = "directory") <=> RemoteIsDirectory(tree.items[k].path)

\* C13: with the paths sorted and every path classified as what it is, the
\* forest returned is the list of the root's children and the root is nobody's
\* child; the nodes with children are the root and the directories, never a
\* file; the children of a node are exactly the paths directly below it, each
\* once, in lexicographic path order; and while getFileTree runs, every path
\* classified so far is already among the children of its parent, which is
\* therefore in the tree before the child is attached.
C13_ForestFollowsParents ==
    ClassifiedRight =>
        /\ (tree.pc = "done")
              => /\ tree.forest = tree.kids[Root]
                 /\ DOMAIN tree.kids = {Root} \cup { f \in tree.fs : RemoteIsDirectory(f) }
                 /\ \A d \in DOMAIN tree.kids :
                       /\ Range(tree.kids[d]) = { f \in tree.fs : IsChildOf(f, d) }
                       /\ Root \notin Range(tree.kids[d])
                       /\ \A i, j \in DOMAIN tree.kids[d] :
                             i < j => StrLess(tree.kids[d][i], tree.kids[d][j])
        /\ (tree.op = "getFileTree" /\ tree.pc \in {"stat", "done"})
              => \A k \in DOMAIN tree.items :
                    \E d \in DOMAIN tree.kids :
                        /\ IsChildOf(tree.items[k].path, d)
                        /\ tree.items[k].path \in Range(tree.kids[d])

W_C13_NestedForest ==
    /\ tree.op = "getFileTree" /\ tree.pc = "done"
    /\ tree.fs = {DirA, FileAdash, FileAB, DirAD}
    /\ ClassifiedRight
    /\ tree.forest = <<DirA, FileAdash>>
    /\ tree.kids[DirA] = <<FileAB, DirAD>>
    /\ tree.kids[DirAD] = <<>>

\* C17: readFilesBatch has at most batchSize reads in flight; while a batch
\* is being read, every file before it has its entry in the results and no
\* file after it has been read or is being read, and the reads of a batch are
\* started only in the step that completes the last read of the batch before;
\* when the traversal has returned, the results hold one entry for each file
\* requested and nothing else.
C17_BatchesBoundedAndSequential ==
    /\ [](/\ Cardinality(tree.pending) <= batchSize
          /\ tree.inFlightMax <= batchSize
          /\ (tree.pc = "read")
                => /\ tree.pending \cup DOMAIN tree.settled
                        = Range(Batch(tree.toRead, tree.at))
                   /\ tree.pending \cap DOMAIN tree.settled = {}
                   /\ \A k \in DOMAIN tree.toRead :
                         /\ k < tree.at => tree.toRead[k] \in DOMAIN tree.results
                         /\ k >= tree.at + batchSize
                               => tree.toRead[k] \notin
                                    (tree.pending \cup DOMAIN tree.settled
                                        \cup DOMAIN tree.results)
          /\ (tree.op = "getFileContentTree" /\ tree.pc = "done")
                => DOMAIN tree.results = Range(tree.toRead))
    /\ [][(tree'.pending \ tree.pending # {})
            => (Cardinality(tree.pending) <= 1
                  /\ tree'.pending \cap DOMAIN tree'.results = {}
                  /\ tree.pending \subseteq DOMAIN tree'.results)]_vars

W_C17_SecondBatchInFlight ==
    /\ tree.op = "getFileContentTree" /\ tree.pc = "read"
    /\ Len(tree.toRead) > batchSize
    /\ tree.at = 1 + batchSize
    /\ DOMAIN tree.results = Range(Batch(tree.toRead, 1))
    /\ tree.pending = Range(Batch(tree.toRead, 1 + batchSize))
    /\ tree.inFlightMax = batchSize

RECURSIVE NodesBelow(_)
\* the nodes reached from a list of nodes through the children links, in
\* the order a walk of the forest meets them, each as often as it is met
NodesBelow(nodes) ==
    IF nodes = <<>> THEN <<>>
    ELSE <<Head(nodes)>>
            \o (IF Head(nodes) \in DOMAIN tree.kids
                THEN NodesBelow(tree.kids[Head(nodes)]) ELSE <<>>)
            \o NodesBelow(Tail(nodes))

\* C22: when getFileTree or getFileContentTree has returned, the nodes
\* reached from the top-level nodes of the forest are the paths that
\* survived the filter, each exactly once, whatever the stat calls did.
C22_EveryPathOnceInForest ==
    (tree.pc = "done")
        => /\ Range(NodesBelow(tree.forest)) = Range(tree.paths)
           /\ Len(NodesBelow(tree.forest)) = Len(tree.paths)

====
